---- MODULE Spec2Model ----
(***************************************************************************)
(* Authorization and membership lifecycle of LiquorLovers parties and      *)
(* party invitations: party/views.py (PartyViewSet, PartyInvitationViewSet)*)
(* over the Party / PartyInvitation tables.  The models and serializers    *)
(* (party/models.py, party/serializers.py) are modelled from the           *)
(* specification where the views call into them.                           *)
(***************************************************************************)
EXTENDS Integers, Sequences, FiniteSets, TLC

(* ------------------------------ bounds -------------------------------- *)
MaxParties == 2
MaxInvitations == 2
NumThreads == 2

(* ----------------------------- universes ------------------------------ *)
Users == {"u1", "u2", "u3"}
Names == {"n1", "n2"}
Absent == "absent"

PartyIds == 1..MaxParties
InvitationIds == 1..MaxInvitations
Threads == 1..NumThreads

\* request.data of the party endpoints: every key may be missing
PartyPayloads == [name : Names \cup {Absent}, owner : Users \cup {Absent}]
\* request.data of the invitation create endpoint (party 0: the key is missing)
InvitationPayloads == [receiver : Users \cup {Absent}, party : {0} \cup PartyIds]

(* --------------------------- response codes --------------------------- *)
HTTP_200_OK == "200_OK"
HTTP_201_CREATED == "201_CREATED"
HTTP_204_NO_CONTENT == "204_NO_CONTENT"
HTTP_400_BAD_REQUEST == "400_BAD_REQUEST"
HTTP_403_FORBIDDEN == "403_FORBIDDEN"
HTTP_404_NOT_FOUND == "404_NOT_FOUND"
HTTP_500_SERVER_ERROR == "500_SERVER_ERROR"

(* ------------------------------- state -------------------------------- *)
VARIABLES
    parties,      \* Party table: public_id -> [owner, participants, name]
    invitations,  \* PartyInvitation table: pk -> [party, receiver, byOwner]
    nextParty,    \* next fresh Party public_id (never reused)
    nextInv,      \* next fresh PartyInvitation pk (never reused)
    last,         \* the response being returned (NoRequest: none pending)
    reqs,         \* requests in flight in the worker threads
    resolved,     \* history: pk -> the requests answered as having resolved it
    prev          \* history: the store as the step that produced last found it

vars == <<parties, invitations, nextParty, nextInv, last, reqs, resolved, prev>>

NoRequest == [op |-> "none", actor |-> Absent, pid |-> 0, iid |-> 0,
              status |-> "none", body |-> <<>>]

Resp(op, actor, pid, iid, status, body) ==
    [op |-> op, actor |-> actor, pid |-> pid, iid |-> iid,
     status |-> status, body |-> body]

\* a worker thread between two requests
NoInvitation == [party |-> 0, receiver |-> Absent, byOwner |-> FALSE]
Idle == [pc |-> "idle", op |-> "none", actor |-> Absent, pid |-> 0, iid |-> 0,
         inv |-> NoInvitation, owner |-> Absent]

\* the tables and the threads' instances before a step
Snapshot == [parties |-> parties, invitations |-> invitations, reqs |-> reqs]
NoSnapshot == [parties |-> <<>>, invitations |-> <<>>, reqs |-> <<>>]

Init ==
    /\ parties = <<>>
    /\ invitations = <<>>
    /\ nextParty = 1
    /\ nextInv = 1
    /\ last = NoRequest
    /\ reqs = [t \in Threads |-> Idle]
    /\ resolved = [i \in InvitationIds |-> <<>>]
    /\ prev = NoSnapshot

(* ------------------------- store primitives --------------------------- *)
\* ascending ids of a table: the store's natural (insertion) order
RECURSIVE OrderedIds(_)
OrderedIds(S) ==
    IF S = {} THEN <<>>
    ELSE LET m == CHOOSE x \in S : \A y \in S : x <= y
         IN <<m>> \o OrderedIds(S \ {m})

\* mutation: a delete that removes nothing
Without_nothing(table, ids) == table

Without(table, ids) == [k \in (DOMAIN table) \ ids |-> table[k]]

\* serializer.data of a party
PartyData(p) == [id |-> p] @@ parties[p]

\* serializer.data of an invitation
InvitationData(i) ==
    [id |-> i, party |-> invitations[i].party, receiver |-> invitations[i].receiver]

(* ------------------ models and serializers (party app) ---------------- *)
\* Party.can_see_party(user)
can_see_party(party, user) == user = party.owner \/ user \in party.participants

\* PartySerializer.is_valid: name and owner_public_id are required unless partial
PartySerializer_is_valid(data, partial) ==
    partial \/ (data.name # Absent /\ data.owner # Absent)

\* PartySerializer.save on an instance: writes the fields the data carries;
\* participants is not a writable field
PartySerializer_update(party, data) ==
    [party EXCEPT !.name = IF data.name # Absent THEN data.name ELSE @,
                  !.owner = IF data.owner # Absent THEN data.owner ELSE @]

\* PartySerializer.save without an instance
PartySerializer_create(data) ==
    [owner |-> data.owner, participants |-> {}, name |-> data.name]

\* PartyInvitationSerializer.is_valid: receiver and party are required
PartyInvitationSerializer_is_valid(data) ==
    data.receiver # Absent /\ data.party \in DOMAIN parties

\* mutation: deleting a party leaves its invitations in the table
CascadeInvitations_none(table, p) == table

\* deleting a party deletes the invitations that reference it
CascadeInvitations(table, p) ==
    [k \in {i \in DOMAIN table : table[i].party # p} |-> table[k]]

(* ----------------------------- PartyViewSet --------------------------- *)
\* mutation: the owner the request supplies is kept
create_data_as_sent(data, user) == data

\* line 24: request.data['owner_public_id'] = request.user.public_id
create_data(data, user) == [data EXCEPT !.owner = user]

PartyViewSet_create(a, data) ==
    /\ LET d == create_data(data, a) IN
       IF ~PartySerializer_is_valid(d, FALSE)
       THEN /\ last' = Resp("party_create", a, 0, 0, HTTP_400_BAD_REQUEST, <<>>)
            /\ UNCHANGED <<parties, nextParty>>
       ELSE /\ nextParty <= MaxParties
            /\ parties' = parties @@ (nextParty :> PartySerializer_create(d))
            /\ nextParty' = nextParty + 1
            /\ last' = Resp("party_create", a, nextParty, 0, HTTP_201_CREATED, <<>>)
    /\ UNCHANGED <<invitations, nextInv, reqs, resolved>>

\* line 33
retrieve_forbidden(party, user) == ~can_see_party(party, user)

PartyViewSet_retrieve(a, p) ==
    /\ last' = IF p \notin DOMAIN parties
               THEN Resp("party_retrieve", a, p, 0, HTTP_404_NOT_FOUND, <<>>)
               ELSE IF retrieve_forbidden(parties[p], a)
               THEN Resp("party_retrieve", a, p, 0, HTTP_403_FORBIDDEN, <<>>)
               ELSE Resp("party_retrieve", a, p, 0, HTTP_200_OK, <<PartyData(p)>>)
    /\ UNCHANGED <<parties, invitations, nextParty, nextInv, reqs, resolved>>

\* mutation: only the owner's parties are listed
list_filter_owner_only(party, user) == user = party.owner

\* line 43: filter(lambda p: p.can_see_party(request.user), self.get_queryset())
list_filter(party, user) == can_see_party(party, user)

PartyViewSet_list(a) ==
    /\ LET visible == SelectSeq(OrderedIds(DOMAIN parties),
                                LAMBDA p : list_filter(parties[p], a))
       IN last' = Resp("party_list", a, 0, 0, HTTP_200_OK,
                       [k \in 1..Len(visible) |-> PartyData(visible[k])])
    /\ UNCHANGED <<parties, invitations, nextParty, nextInv, reqs, resolved>>

\* line 52: request.user.parties_where_im_owner
PartyViewSet_list_mine(a) ==
    /\ LET mine == SelectSeq(OrderedIds(DOMAIN parties),
                             LAMBDA p : parties[p].owner = a)
       IN last' = Resp("party_list_mine", a, 0, 0, HTTP_200_OK,
                       [k \in 1..Len(mine) |-> PartyData(mine[k])])
    /\ UNCHANGED <<parties, invitations, nextParty, nextInv, reqs, resolved>>

\* mutation: the visibility check in place of the ownership check
update_forbidden_if_cannot_see(party, user) == ~can_see_party(party, user)

\* line 60
update_forbidden(party, user) == party.owner # user

\* line 63: request.data | {'owner_public_id': request.user.public_id}
update_data(data, user) == [data EXCEPT !.owner = user]

PartyViewSet_update(a, p, data) ==
    /\ IF p \notin DOMAIN parties
       THEN /\ last' = Resp("party_update", a, p, 0, HTTP_404_NOT_FOUND, <<>>)
            /\ UNCHANGED parties
       ELSE IF update_forbidden(parties[p], a)
       THEN /\ last' = Resp("party_update", a, p, 0, HTTP_403_FORBIDDEN, <<>>)
            /\ UNCHANGED parties
       ELSE IF ~PartySerializer_is_valid(update_data(data, a), FALSE)
       THEN /\ last' = Resp("party_update", a, p, 0, HTTP_400_BAD_REQUEST, <<>>)
            /\ UNCHANGED parties
       ELSE /\ parties' = [parties EXCEPT
                             ![p] = PartySerializer_update(@, update_data(data, a))]
            /\ last' = Resp("party_update", a, p, 0, HTTP_200_OK, <<>>)
    /\ UNCHANGED <<invitations, nextParty, nextInv, reqs, resolved>>

\* line 73
partial_update_forbidden(party, user) == party.owner # user

\* line 76: data=request.data, as sent
partial_update_data(data, user) == data

PartyViewSet_partial_update(a, p, data) ==
    /\ IF p \notin DOMAIN parties
       THEN /\ last' = Resp("party_partial_update", a, p, 0, HTTP_404_NOT_FOUND, <<>>)
            /\ UNCHANGED parties
       ELSE IF partial_update_forbidden(parties[p], a)
       THEN /\ last' = Resp("party_partial_update", a, p, 0, HTTP_403_FORBIDDEN, <<>>)
            /\ UNCHANGED parties
       ELSE /\ parties' = [parties EXCEPT
                             ![p] = PartySerializer_update(@, partial_update_data(data, a))]
            /\ last' = Resp("party_partial_update", a, p, 0, HTTP_200_OK, <<>>)
    /\ UNCHANGED <<invitations, nextParty, nextInv, reqs, resolved>>

\* line 87
destroy_forbidden(party, user) ==
    party.owner # user /\ user \notin party.participants

\* mutation: the participant branch is never taken
destroy_leaves_never(party, user) == FALSE

\* line 90
destroy_leaves(party, user) == party.owner # user

PartyViewSet_destroy(a, p) ==
    /\ IF p \notin DOMAIN parties
       THEN /\ last' = Resp("party_destroy", a, p, 0, HTTP_404_NOT_FOUND, <<>>)
            /\ UNCHANGED <<parties, invitations>>
       ELSE IF destroy_forbidden(parties[p], a)
       THEN /\ last' = Resp("party_destroy", a, p, 0, HTTP_403_FORBIDDEN, <<>>)
            /\ UNCHANGED <<parties, invitations>>
       ELSE IF destroy_leaves(parties[p], a)
       THEN /\ parties' = [parties EXCEPT ![p].participants = @ \ {a}]
            /\ last' = Resp("party_destroy", a, p, 0, HTTP_204_NO_CONTENT, <<>>)
            /\ UNCHANGED invitations
       ELSE /\ parties' = Without(parties, {p})
            /\ invitations' = CascadeInvitations(invitations, p)
            /\ last' = Resp("party_destroy", a, p, 0, HTTP_204_NO_CONTENT, <<>>)
    /\ UNCHANGED <<nextParty, nextInv, reqs, resolved>>

(* ------------------------ PartyInvitation model ----------------------- *)
\* PartyInvitation.accept(), the party side: the receiver joins the participants
\* (adding a participant who is already there changes nothing)
accept_parties(ptable, inv) ==
    [ptable EXCEPT ![inv.party].participants = @ \cup {inv.receiver}]

\* mutation: accept() leaves the invitation record in place
accept_invitations_kept(itable, i) == itable

\* PartyInvitation.accept(), the invitation side: the record is deleted
\* (deleting a record that is already gone deletes nothing and raises nothing)
accept_invitations(itable, i) == Without(itable, {i})

\* PartyInvitationSerializer.save: the new record; byOwner is a history field
\* (was the creating actor the owner of the record's target party)
PartyInvitationSerializer_create(data, user) ==
    [party |-> data.party, receiver |-> data.receiver,
     byOwner |-> (user = parties[data.party].owner)]

(* ------------------------ PartyInvitationViewSet ---------------------- *)
\* lines 167-168: get_object_or_404(Party, public_id=self.kwargs['party_public_id'])
get_party_found(pp) == pp \in DOMAIN parties

\* mutations: participants may invite; anybody may invite
invitation_create_forbidden_if_cannot_see(party, user) == ~can_see_party(party, user)
invitation_create_forbidden_never(party, user) == FALSE

\* line 111
invitation_create_forbidden(party, user) == user # party.owner

\* mutation: the party the request data supplies is kept
invitation_create_data_as_sent(data, pp) == data

\* line 114: request.data | {'party_public_id': party.public_id}
invitation_create_data(data, pp) == [data EXCEPT !.party = pp]

PartyInvitationViewSet_create(a, pp, data) ==
    /\ IF ~get_party_found(pp)
       THEN /\ last' = Resp("invitation_create", a, pp, 0, HTTP_404_NOT_FOUND, <<>>)
            /\ UNCHANGED <<invitations, nextInv>>
       ELSE IF invitation_create_forbidden(parties[pp], a)
       THEN /\ last' = Resp("invitation_create", a, pp, 0, HTTP_403_FORBIDDEN, <<>>)
            /\ UNCHANGED <<invitations, nextInv>>
       ELSE IF ~PartyInvitationSerializer_is_valid(invitation_create_data(data, pp))
       THEN /\ last' = Resp("invitation_create", a, pp, 0, HTTP_400_BAD_REQUEST, <<>>)
            /\ UNCHANGED <<invitations, nextInv>>
       ELSE /\ nextInv <= MaxInvitations
            /\ invitations' = invitations @@
                 (nextInv :> PartyInvitationSerializer_create(
                                 invitation_create_data(data, pp), a))
            /\ nextInv' = nextInv + 1
            /\ last' = Resp("invitation_create", a, pp, nextInv, HTTP_201_CREATED, <<>>)
    /\ UNCHANGED <<parties, nextParty, reqs, resolved>>

\* mutation: the receiver check is dropped
accept_noop_never(inv, user) == FALSE

\* line 126
accept_noop(inv, user) == user # inv.receiver

\* history: the request (op by actor) was answered as having resolved i
Resolve(i, op, actor) ==
    resolved' = [resolved EXCEPT ![i] = Append(@, [op |-> op, actor |-> actor])]

PartyInvitationViewSet_accept(a, i) ==
    /\ IF i \notin DOMAIN invitations
       THEN /\ last' = Resp("invitation_accept", a, 0, i, HTTP_404_NOT_FOUND, <<>>)
            /\ UNCHANGED <<parties, invitations, resolved>>
       ELSE IF accept_noop(invitations[i], a)
       THEN /\ last' = Resp("invitation_accept", a, 0, i, HTTP_204_NO_CONTENT, <<>>)
            /\ UNCHANGED <<parties, invitations, resolved>>
       ELSE /\ parties' = accept_parties(parties, invitations[i])
            /\ invitations' = accept_invitations(invitations, i)
            /\ last' = Resp("invitation_accept", a, 0, i, HTTP_201_CREATED, <<>>)
            /\ Resolve(i, "invitation_accept", a)
    /\ UNCHANGED <<nextParty, nextInv, reqs>>

\* line 138
invitation_list_forbidden(party, user) == user # party.owner

\* mutation: the queryset is not narrowed to the party
invitation_list_filter_all(inv, pp) == TRUE

\* line 141: self.get_queryset().filter(party=party)
invitation_list_filter(inv, pp) == inv.party = pp

PartyInvitationViewSet_list(a, pp) ==
    /\ IF ~get_party_found(pp)
       THEN last' = Resp("invitation_list", a, pp, 0, HTTP_404_NOT_FOUND, <<>>)
       ELSE IF invitation_list_forbidden(parties[pp], a)
       THEN last' = Resp("invitation_list", a, pp, 0, HTTP_403_FORBIDDEN, <<>>)
       ELSE LET found == SelectSeq(OrderedIds(DOMAIN invitations),
                                   LAMBDA i : invitation_list_filter(invitations[i], pp))
            IN last' = Resp("invitation_list", a, pp, 0, HTTP_200_OK,
                            [k \in 1..Len(found) |-> InvitationData(found[k])])
    /\ UNCHANGED <<parties, invitations, nextParty, nextInv, reqs, resolved>>

\* mutation: the queryset is not narrowed to the user
invitation_list_mine_filter_all(inv, user) == TRUE

\* line 150: self.get_queryset().filter(receiver=request.user)
invitation_list_mine_filter(inv, user) == inv.receiver = user

PartyInvitationViewSet_list_mine(a) ==
    /\ LET found == SelectSeq(OrderedIds(DOMAIN invitations),
                              LAMBDA i : invitation_list_mine_filter(invitations[i], a))
       IN last' = Resp("invitation_list_mine", a, 0, 0, HTTP_200_OK,
                       [k \in 1..Len(found) |-> InvitationData(found[k])])
    /\ UNCHANGED <<parties, invitations, nextParty, nextInv, reqs, resolved>>

\* line 161: party is the party the request's URL names
invitation_destroy_forbidden(party, inv, user) ==
    user \notin {party.owner, inv.receiver}

PartyInvitationViewSet_destroy(a, pp, i) ==
    /\ IF i \notin DOMAIN invitations
       THEN /\ last' = Resp("invitation_destroy", a, pp, i, HTTP_404_NOT_FOUND, <<>>)
            /\ UNCHANGED <<invitations, resolved>>
       ELSE IF ~get_party_found(pp)
       THEN /\ last' = Resp("invitation_destroy", a, pp, i, HTTP_404_NOT_FOUND, <<>>)
            /\ UNCHANGED <<invitations, resolved>>
       ELSE IF invitation_destroy_forbidden(parties[pp], invitations[i], a)
       THEN /\ last' = Resp("invitation_destroy", a, pp, i, HTTP_403_FORBIDDEN, <<>>)
            /\ UNCHANGED <<invitations, resolved>>
       ELSE /\ invitations' = Without(invitations, {i})
            /\ last' = Resp("invitation_destroy", a, pp, i, HTTP_204_NO_CONTENT, <<>>)
            /\ Resolve(i, "invitation_destroy", a)
    /\ UNCHANGED <<parties, nextParty, nextInv, reqs>>

(* --------------------- one request at a time -------------------------- *)
\* the previous response has been returned
Free == last = NoRequest

\* a request arrives at the free worker
Arrive == Free /\ prev' = Snapshot

\* the response goes back to the caller and the worker takes the next request
Return ==
    /\ last # NoRequest
    /\ last' = NoRequest
    /\ prev' = NoSnapshot
    /\ UNCHANGED <<parties, invitations, nextParty, nextInv, reqs, resolved>>

Next ==
    \/ \E a \in Users, data \in PartyPayloads :
          Arrive /\ PartyViewSet_create(a, data)
    \/ \E a \in Users, p \in PartyIds : Arrive /\ PartyViewSet_retrieve(a, p)
    \/ \E a \in Users : Arrive /\ PartyViewSet_list(a)
    \/ \E a \in Users : Arrive /\ PartyViewSet_list_mine(a)
    \/ \E a \in Users, p \in PartyIds, data \in PartyPayloads :
          Arrive /\ PartyViewSet_update(a, p, data)
    \/ \E a \in Users, p \in PartyIds, data \in PartyPayloads :
          Arrive /\ PartyViewSet_partial_update(a, p, data)
    \/ \E a \in Users, p \in PartyIds : Arrive /\ PartyViewSet_destroy(a, p)
    \/ \E a \in Users, pp \in PartyIds, data \in InvitationPayloads :
          Arrive /\ PartyInvitationViewSet_create(a, pp, data)
    \/ \E a \in Users, i \in InvitationIds :
          Arrive /\ PartyInvitationViewSet_accept(a, i)
    \/ \E a \in Users, pp \in PartyIds : Arrive /\ PartyInvitationViewSet_list(a, pp)
    \/ \E a \in Users : Arrive /\ PartyInvitationViewSet_list_mine(a)
    \/ \E a \in Users, pp \in PartyIds, i \in InvitationIds :
          Arrive /\ PartyInvitationViewSet_destroy(a, pp, i)
    \/ Return

Spec == Init /\ [][Next]_vars

(* ------------- requests interleaved at the store's calls -------------- *)
\* The invitation views run in threads; each ORM call is one step against the
\* store, and the instance a view holds between two calls is the row as it
\* was read.  A view's response is handed back through last; a step is taken
\* once the previous response has been returned.
ConcOwners == {"u1"}
ConcPartyPayloads == {d \in PartyPayloads : d.name = "n1" /\ d.owner = Absent}
ConcReceivers == {"u2"}
ConcInvitationPayloads ==
    {d \in InvitationPayloads : d.receiver \in ConcReceivers /\ d.party = 0}

\* accept, line 124: invitation = self.get_object()
accept_get_object(t, a, i) ==
    /\ reqs[t].pc = "idle"
    /\ IF i \notin DOMAIN invitations
       THEN /\ last' = Resp("invitation_accept", a, 0, i, HTTP_404_NOT_FOUND, <<>>)
            /\ prev' = Snapshot
            /\ UNCHANGED reqs
       ELSE /\ reqs' = [reqs EXCEPT ![t] =
                  [Idle EXCEPT !.pc = "accept_loaded", !.op = "invitation_accept",
                               !.actor = a, !.iid = i, !.inv = invitations[i]]]
            /\ UNCHANGED <<last, prev>>
    /\ UNCHANGED <<parties, invitations, nextParty, nextInv, resolved>>

\* accept, lines 126-130, on the instance read at line 124; accept() on an
\* invitation whose party is gone fails as a whole
accept_check_and_call(t) ==
    /\ reqs[t].pc = "accept_loaded"
    /\ LET a == reqs[t].actor
           i == reqs[t].iid
       IN IF accept_noop(reqs[t].inv, a)
          THEN /\ last' = Resp("invitation_accept", a, 0, i, HTTP_204_NO_CONTENT, <<>>)
               /\ UNCHANGED <<parties, invitations, resolved>>
          ELSE IF reqs[t].inv.party \notin DOMAIN parties
          THEN /\ last' = Resp("invitation_accept", a, 0, i, HTTP_500_SERVER_ERROR, <<>>)
               /\ UNCHANGED <<parties, invitations, resolved>>
          ELSE /\ parties' = accept_parties(parties, reqs[t].inv)
               /\ invitations' = accept_invitations(invitations, i)
               /\ last' = Resp("invitation_accept", a, 0, i, HTTP_201_CREATED, <<>>)
               /\ Resolve(i, "invitation_accept", a)
    /\ reqs' = [reqs EXCEPT ![t] = Idle]
    /\ prev' = Snapshot
    /\ UNCHANGED <<nextParty, nextInv>>

\* destroy, lines 158-159: self.get_object(), self.get_party()
destroy_get_objects(t, a, pp, i) ==
    /\ reqs[t].pc = "idle"
    /\ IF i \notin DOMAIN invitations \/ ~get_party_found(pp)
       THEN /\ last' = Resp("invitation_destroy", a, pp, i, HTTP_404_NOT_FOUND, <<>>)
            /\ prev' = Snapshot
            /\ UNCHANGED reqs
       ELSE /\ reqs' = [reqs EXCEPT ![t] =
                  [Idle EXCEPT !.pc = "destroy_loaded", !.op = "invitation_destroy",
                               !.actor = a, !.pid = pp, !.iid = i,
                               !.inv = invitations[i], !.owner = parties[pp].owner]]
            /\ UNCHANGED <<last, prev>>
    /\ UNCHANGED <<parties, invitations, nextParty, nextInv, resolved>>

\* destroy, lines 161-165, on the instances read at lines 158-159
destroy_check_and_delete(t) ==
    /\ reqs[t].pc = "destroy_loaded"
    /\ LET a == reqs[t].actor
           i == reqs[t].iid
       IN IF invitation_destroy_forbidden([owner |-> reqs[t].owner], reqs[t].inv, a)
          THEN /\ last' = Resp("invitation_destroy", a, reqs[t].pid, i,
                               HTTP_403_FORBIDDEN, <<>>)
               /\ UNCHANGED <<invitations, resolved>>
          ELSE /\ invitations' = Without(invitations, {i})
               /\ last' = Resp("invitation_destroy", a, reqs[t].pid, i,
                               HTTP_204_NO_CONTENT, <<>>)
               /\ Resolve(i, "invitation_destroy", a)
    /\ reqs' = [reqs EXCEPT ![t] = Idle]
    /\ prev' = Snapshot
    /\ UNCHANGED <<parties, nextParty, nextInv>>

NextConc ==
    \/ \E a \in ConcOwners, data \in ConcPartyPayloads :
          Arrive /\ PartyViewSet_create(a, data)
    \/ \E a \in Users, p \in PartyIds : Arrive /\ PartyViewSet_destroy(a, p)
    \/ \E a \in Users, pp \in PartyIds, data \in ConcInvitationPayloads :
          Arrive /\ PartyInvitationViewSet_create(a, pp, data)
    \/ Return
    \/ \E t \in Threads, a \in Users, i \in InvitationIds :
          Free /\ accept_get_object(t, a, i)
    \/ \E t \in Threads : Free /\ accept_check_and_call(t)
    \/ \E t \in Threads, a \in Users, pp \in PartyIds, i \in InvitationIds :
          Free /\ destroy_get_objects(t, a, pp, i)
    \/ \E t \in Threads : Free /\ destroy_check_and_delete(t)

SpecConc == Init /\ [][NextConc]_vars

(* ====================================================================== *)
(*                       properties of the handlers                        *)
(* ====================================================================== *)
\* In a state whose last is a response, prev is the store that the answering
\* step found and parties / invitations are the store it left.
Answered(op) == last.op = op

OwnerOrParticipant(party, u) == u = party.owner \/ u \in party.participants

UpdateOps == {"party_update", "party_partial_update"}

\* C1: a Delete of a pending invitation I by actor A removes I only if A is the
\* owner of I's target party or I's receiver, whatever party the request names;
\* for any other actor I stays pending and (the named party existing) the
\* response is Forbidden.
C1_DeleteOnlyByTargetOwnerOrReceiver ==
    ( /\ Answered("invitation_destroy")
      /\ last.iid \in DOMAIN prev.invitations
      /\ last.actor # prev.invitations[last.iid].receiver
      /\ last.actor # prev.parties[prev.invitations[last.iid].party].owner )
    => /\ last.iid \in DOMAIN invitations
       /\ last.pid \in DOMAIN prev.parties => last.status = HTTP_403_FORBIDDEN

\* C2: of two concurrent Accept calls of the receiver on one pending
\* invitation exactly one is answered as an acceptance (participant added,
\* invitation deleted); the other is answered NotFound.
C2_OneAcceptPerInvitation ==
    \A i \in InvitationIds :
       Cardinality({k \in 1..Len(resolved[i]) :
                       resolved[i][k].op = "invitation_accept"}) <= 1

C4_WrongActorAcceptChangesNothing ==
    ( /\ Answered("invitation_accept")
      /\ last.iid \in DOMAIN prev.invitations
      /\ last.actor # prev.invitations[last.iid].receiver )
    => parties = prev.parties /\ invitations = prev.invitations

C4_Witness ==
    /\ Answered("invitation_accept")
    /\ last.iid \in DOMAIN prev.invitations
    /\ last.actor # prev.invitations[last.iid].receiver
    /\ last.actor = prev.parties[prev.invitations[last.iid].party].owner

\* C5: after a successful update or partial_update of a party the stored owner
\* is the owner before the update, whatever the payload carries.
C5_UpdateKeepsOwner ==
    ( /\ last.op \in UpdateOps
      /\ last.status = HTTP_200_OK )
    => /\ last.pid \in DOMAIN parties
       /\ parties[last.pid].owner = prev.parties[last.pid].owner

\* C6: update or partial_update of a party by an actor who is not its owner is
\* answered Forbidden and leaves every record unchanged.
C6_NonOwnerUpdateForbidden ==
    ( /\ last.op \in UpdateOps
      /\ last.pid \in DOMAIN prev.parties
      /\ last.actor # prev.parties[last.pid].owner )
    => /\ last.status = HTTP_403_FORBIDDEN
       /\ parties = prev.parties
       /\ invitations = prev.invitations

C6_Witness ==
    /\ last.op \in UpdateOps
    /\ last.pid \in DOMAIN prev.parties
    /\ last.actor \in prev.parties[last.pid].participants
    /\ last.actor # prev.parties[last.pid].owner
    /\ last.status = HTTP_403_FORBIDDEN

\* C7: retrieve answers with the party iff the actor is its owner or one of its
\* participants and refuses otherwise; list answers with exactly the parties
\* the actor owns or participates in, in ascending store order.
C7_RetrieveAndListFollowCanSee ==
    /\ (Answered("party_retrieve") /\ last.pid \in DOMAIN parties)
          => IF OwnerOrParticipant(parties[last.pid], last.actor)
             THEN last.status = HTTP_200_OK /\ last.body = <<PartyData(last.pid)>>
             ELSE last.status = HTTP_403_FORBIDDEN /\ last.body = <<>>
    /\ Answered("party_list")
          => /\ last.status = HTTP_200_OK
             /\ parties = prev.parties
             /\ \A k \in 1..Len(last.body) :
                   /\ last.body[k].id \in DOMAIN parties
                   /\ last.body[k] = PartyData(last.body[k].id)
                   /\ \A j \in 1..(k-1) : last.body[j].id < last.body[k].id
             /\ {last.body[k].id : k \in 1..Len(last.body)}
                   = {p \in DOMAIN parties :
                         OwnerOrParticipant(parties[p], last.actor)}

C7_Witness ==
    /\ Answered("party_list")
    /\ Cardinality(DOMAIN parties) = 2
    /\ Len(last.body) = 1
    /\ last.actor \in last.body[1].participants
    /\ last.actor # last.body[1].owner

\* C8: destroy of a party: the owner deletes it; a participant who is not the
\* owner leaves it (party kept, owner and the other participants unchanged);
\* anybody else is answered Forbidden and nothing changes.
C8_DestroyThreeOutcomes ==
    (Answered("party_destroy") /\ last.pid \in DOMAIN prev.parties)
    => LET p == last.pid
           before == prev.parties
       IN IF last.actor = before[p].owner
          THEN /\ last.status = HTTP_204_NO_CONTENT
               /\ p \notin DOMAIN parties
               /\ \A q \in DOMAIN before \ {p} :
                     q \in DOMAIN parties /\ parties[q] = before[q]
          ELSE IF last.actor \in before[p].participants
          THEN /\ last.status = HTTP_204_NO_CONTENT
               /\ DOMAIN parties = DOMAIN before
               /\ parties[p].owner = before[p].owner
               /\ parties[p].name = before[p].name
               /\ parties[p].participants = before[p].participants \ {last.actor}
               /\ \A q \in DOMAIN before \ {p} : parties[q] = before[q]
               /\ invitations = prev.invitations
          ELSE /\ last.status = HTTP_403_FORBIDDEN
               /\ parties = before
               /\ invitations = prev.invitations

C8_Witness ==
    /\ Answered("party_destroy")
    /\ last.status = HTTP_204_NO_CONTENT
    /\ last.pid \in DOMAIN parties
    /\ parties[last.pid].participants # {}
    /\ last.actor \in prev.parties[last.pid].participants

\* C9: an invitation record is created only by a create request of the owner of
\* the party the request names; a create by any other actor (a participant
\* too) is answered Forbidden and creates nothing.
C9_OnlyOwnerCreatesInvitation ==
    /\ ( /\ Answered("invitation_create")
         /\ last.pid \in DOMAIN prev.parties
         /\ last.actor # prev.parties[last.pid].owner )
       => last.status = HTTP_403_FORBIDDEN /\ invitations = prev.invitations
    /\ last # NoRequest =>
          \A j \in (DOMAIN invitations) \ (DOMAIN prev.invitations) :
             /\ Answered("invitation_create")
             /\ last.status = HTTP_201_CREATED
             /\ last.iid = j
             /\ last.pid \in DOMAIN prev.parties
             /\ last.actor = prev.parties[last.pid].owner

C9_Witness ==
    /\ Answered("invitation_create")
    /\ last.status = HTTP_403_FORBIDDEN
    /\ last.pid \in DOMAIN parties
    /\ last.actor \in parties[last.pid].participants

C11_DeleteOrAcceptNotBoth ==
    \A i \in InvitationIds :
       ~ \E j, k \in 1..Len(resolved[i]) :
            /\ resolved[i][j].op = "invitation_destroy"
            /\ resolved[i][k].op = "invitation_accept"

\* C12: in every reachable state the owner of a party is not one of its
\* participants.
C12_OwnerNotParticipant ==
    \A p \in DOMAIN parties : parties[p].owner \notin parties[p].participants

\* C13: an Accept by an actor who is not the receiver has one caller-visible
\* outcome whether or not the invitation exists: the no-op answer (204, empty
\* body) that the view gives for a pending invitation addressed to someone
\* else is also the answer for an identifier that names no invitation.
C13_NonReceiverAcceptHidesExistence ==
    ( /\ Answered("invitation_accept")
      /\ \/ last.iid \notin DOMAIN prev.invitations
         \/ last.actor # prev.invitations[last.iid].receiver )
    => last.status = HTTP_204_NO_CONTENT /\ last.body = <<>>

BodyIds == {last.body[k].id : k \in 1..Len(last.body)}

\* C14: listing the invitations of an existing party P is answered 200 only to
\* the owner of P, with exactly the pending invitations whose party is P, each
\* once and as stored; every other actor (a participant or an invited
\* receiver included) is answered Forbidden with no invitation in the body.
C14_ListOnlyForOwnerExactlyOfParty ==
    ( Answered("invitation_list") /\ last.pid \in DOMAIN parties )
    => IF last.actor = parties[last.pid].owner
       THEN /\ last.status = HTTP_200_OK
            /\ BodyIds = {i \in DOMAIN invitations : invitations[i].party = last.pid}
            /\ Len(last.body) = Cardinality(BodyIds)
            /\ \A k \in 1..Len(last.body) : last.body[k] = InvitationData(last.body[k].id)
       ELSE last.status = HTTP_403_FORBIDDEN /\ last.body = <<>>

\* the owner lists a party that has an invitation while another party has one too
C14_Witness ==
    /\ Answered("invitation_list")
    /\ last.status = HTTP_200_OK
    /\ Len(last.body) = 1
    /\ \E i \in DOMAIN invitations : invitations[i].party # last.pid

\* C15: a party created by actor A is a new record whose owner is A, whatever
\* owner the request data supplied; no other party is touched.
C15_CreatedPartyOwnedByActor ==
    ( Answered("party_create") /\ last.status = HTTP_201_CREATED )
    => /\ last.pid \notin DOMAIN prev.parties
       /\ DOMAIN parties = DOMAIN prev.parties \cup {last.pid}
       /\ parties[last.pid].owner = last.actor
       /\ \A p \in DOMAIN prev.parties : parties[p] = prev.parties[p]

\* a second party is created by a user who does not own the first one
C15_Witness ==
    /\ Answered("party_create")
    /\ last.status = HTTP_201_CREATED
    /\ parties[last.pid].owner = last.actor
    /\ \E p \in DOMAIN prev.parties : prev.parties[p].owner # last.actor

\* C17: list_mine returns exactly the pending invitations whose receiver is
\* the actor, each once and as stored, and never one addressed to another user.
C17_ListMineExactlyOwn ==
    Answered("invitation_list_mine")
    => /\ last.status = HTTP_200_OK
       /\ BodyIds = {i \in DOMAIN invitations : invitations[i].receiver = last.actor}
       /\ Len(last.body) = Cardinality(BodyIds)
       /\ \A k \in 1..Len(last.body) :
             /\ last.body[k] = InvitationData(last.body[k].id)
             /\ last.body[k].receiver = last.actor

\* the actor has one invitation and another user has one too
C17_Witness ==
    /\ Answered("invitation_list_mine")
    /\ Len(last.body) = 1
    /\ \E i \in DOMAIN invitations : invitations[i].receiver # last.actor

\* C16: once the owner has deleted party P no pending invitation targets P:
\* the owner's delete removes P with every invitation of P, no stored
\* invitation and no entry of a list_mine answer names a party that is gone,
\* and an Accept answered Created acted on a party that exists and stays.
C16_NoInvitationOfDeletedParty ==
    /\ \A i \in DOMAIN invitations : invitations[i].party \in DOMAIN parties
    /\ ( /\ Answered("party_destroy")
         /\ last.status = HTTP_204_NO_CONTENT
         /\ last.actor = prev.parties[last.pid].owner )
       => /\ last.pid \notin DOMAIN parties
          /\ \A i \in DOMAIN invitations : invitations[i].party # last.pid
    /\ Answered("invitation_list_mine")
       => \A k \in 1..Len(last.body) : last.body[k].party \in DOMAIN parties
    /\ ( Answered("invitation_accept") /\ last.status = HTTP_201_CREATED )
       => /\ prev.invitations[last.iid].party \in DOMAIN prev.parties
          /\ DOMAIN parties = DOMAIN prev.parties

\* the owner deletes a party that had a pending invitation
C16_Witness ==
    /\ Answered("party_destroy")
    /\ last.status = HTTP_204_NO_CONTENT
    /\ last.actor = prev.parties[last.pid].owner
    /\ \E i \in DOMAIN prev.invitations : prev.invitations[i].party = last.pid
    /\ last.pid \notin DOMAIN parties

ResolveOps == {"invitation_accept", "invitation_destroy"}

\* C18: an invitation id that an Accept or a Delete has resolved is never
\* pending again, and every Accept or Delete that arrives for it afterwards
\* (the answer comes from the step that looked the invitation up, no request
\* already in flight completing) is answered NotFound and changes no party
\* and no invitation.
C18_ResolvedStaysResolved ==
    /\ \A i \in InvitationIds : resolved[i] # <<>> => i \notin DOMAIN invitations
    /\ ( /\ last.op \in ResolveOps
         /\ last.iid \in InvitationIds
         /\ resolved[last.iid] # <<>>
         /\ last.iid \notin DOMAIN prev.invitations
         /\ reqs = prev.reqs )
       => /\ last.status = HTTP_404_NOT_FOUND
          /\ parties = prev.parties
          /\ invitations = prev.invitations

\* a Delete arrives for an invitation that was accepted, while a party has a
\* participant whose membership it could have changed
C18_Witness ==
    /\ Answered("invitation_destroy")
    /\ last.iid \in InvitationIds
    /\ resolved[last.iid] # <<>>
    /\ resolved[last.iid][1].op = "invitation_accept"
    /\ last.iid \notin DOMAIN prev.invitations
    /\ reqs = prev.reqs
    /\ last.status = HTTP_404_NOT_FOUND

NamesParty ==
    last.op \in {"party_retrieve", "party_update", "party_partial_update",
                 "party_destroy", "invitation_create", "invitation_list",
                 "invitation_destroy"}

NamesMissingRecord ==
    \/ NamesParty /\ last.pid \notin DOMAIN prev.parties
    \/ last.op \in ResolveOps /\ last.iid \notin DOMAIN prev.invitations

\* the authorization predicate of the answered operation, on the records the
\* request found: who may see, who may change, who may leave or delete a
\* party; who may invite to it and list its invitations; who may delete an
\* invitation (the owner of its target party or its receiver)
Authorized ==
    LET party == prev.parties[last.pid]
        inv == prev.invitations[last.iid]
    IN CASE last.op \in {"party_retrieve", "party_destroy"} ->
              OwnerOrParticipant(party, last.actor)
         [] last.op \in UpdateOps \cup {"invitation_create", "invitation_list"} ->
              last.actor = party.owner
         [] last.op = "invitation_destroy" ->
              last.actor \in {prev.parties[inv.party].owner, inv.receiver}
         [] OTHER -> TRUE

\* C19: a request that names a party or an invitation that does not exist is
\* answered NotFound whoever the actor is and changes no record; Forbidden is
\* answered only when every record the request names exists and the actor
\* fails the authorization predicate of the operation.
C19_NotFoundBeforeForbidden ==
    /\ NamesMissingRecord
       => /\ last.status = HTTP_404_NOT_FOUND
          /\ parties = prev.parties
          /\ invitations = prev.invitations
    /\ last.status = HTTP_403_FORBIDDEN
       => ~NamesMissingRecord /\ ~Authorized

\* C20: an invitation that Create stores is a new record whose party is the
\* party named in the URL, the one whose owner the actor was checked to be,
\* whatever party the request data supplied; so every pending invitation was
\* created by the then owner of its own party.
C20_CreatedInvitationTargetsCheckedParty ==
    /\ ( Answered("invitation_create") /\ last.status = HTTP_201_CREATED )
       => /\ last.iid \notin DOMAIN prev.invitations
          /\ DOMAIN invitations = DOMAIN prev.invitations \cup {last.iid}
          /\ invitations[last.iid].party = last.pid
          /\ last.actor = prev.parties[last.pid].owner
          /\ \A i \in DOMAIN prev.invitations : invitations[i] = prev.invitations[i]
    /\ \A i \in DOMAIN invitations : invitations[i].byOwner

\* an owner invites to their party while another user owns a second party
C20_Witness ==
    /\ Answered("invitation_create")
    /\ last.status = HTTP_201_CREATED
    /\ invitations[last.iid].party = last.pid
    /\ \E p \in DOMAIN parties : parties[p].owner # last.actor

====
